---------------------------- MODULE Spec2Model ----------------------------
(***************************************************************************)
(* Model of DS.py, the NASDAQ 30 income-statement dashboard.               *)
(*                                                                         *)
(* The script is executed top to bottom by the dashboard runtime on every  *)
(* user interaction.  One execution is modelled as a walk of the program   *)
(* counter pc through the statements of the script; an unhandled exception *)
(* stops the execution where it is raised (pc = "error", exc = the         *)
(* statement that raised).  The only state that survives an execution is   *)
(* the memo of load_data (cache) and the spreadsheet on disk (file).       *)
(*                                                                         *)
(* A row of the sheet is modelled by the columns the filter, the derived   *)
(* column, the per-ticker aggregates and the sort read: Ticker, Date and   *)
(* Total Unusual Items (TUI).  Numeric cells are non-null.                 *)
(***************************************************************************)
EXTENDS Integers, Sequences, FiniteSets

\* Largest number of data rows in the sheet.
MaxRows == 3

\* Largest number of times read_excel is attempted in one behaviour.
MaxReads == 3

\* Ticker codes of the sheet, and their lexicographic order (the order in
\* which groupby lists its groups).
TickerOrder == <<"OPTN", "UONEK">>

Tickers == {TickerOrder[i] : i \in DOMAIN TickerOrder}

\* default=['OPTN', 'UONEK'] of the multiselect.
DefaultTickers == {"OPTN", "UONEK"}

\* Number of distinct calendar days in the sheet.
MaxDate == 2

\* Calendar days (1 = 2023-01-01, 2 = 2023-02-01, ...) and times of day of
\* the timestamps stored in the sheet; a timestamp is <<day, time of day>>.
\* Statement dates are stored at midnight.
Dates == 1..MaxDate

TimesOfDay == {0}

Timestamps == Dates \X TimesOfDay

\* Values of the Total Unusual Items column.
Amounts == {-1, 1}

RawRows == [Ticker : Tickers, Date : Timestamps, TUI : Amounts]

\* Contents a sheet can have: every sequence of at most MaxRows rows.
Tables == UNION {[1..n -> RawRows] : n \in 0..MaxRows}

\* Statements of the script that put an artefact on the page.
AllArtefacts == {"fig1", "fig2", "fig3", "fig4", "fig5", "fig6", "fig7",
                 "fig8", "table", "summary"}

VARIABLES
    file,              \* <<>> when the workbook/sheet cannot be read, else <<sheet rows>>
    cache,             \* memo of load_data: <<>> or <<Table>>
    reads,             \* number of read_excel calls made so far
    pc,                \* next statement of the running execution
    exc,               \* statement that raised, "none" otherwise
    df,                \* the Table returned by load_data
    selected_tickers,  \* value of the ticker multiselect
    date_range,        \* value of the date input: a tuple of 0..2 dates
    filtered_df,       \* the filtered view
    latest_data,       \* per-ticker last rows of the waterfall
    selected_ticker,   \* value of the company selectbox
    ticker_data,       \* <<>> or <<row given to the pie chart>>
    rendered,          \* artefacts put on the page by this execution
    table_view,        \* rows shown by st.dataframe
    summary            \* the three sidebar lines

vars == <<file, cache, reads, pc, exc, df, selected_tickers, date_range,
          filtered_df, latest_data, selected_ticker, ticker_data, rendered,
          table_view, summary>>

persistent == <<file, cache, reads>>

-----------------------------------------------------------------------------
(* Pure helpers *)

Abs(x) == IF x < 0 THEN -x ELSE x

AbsIdentity(x) == x

\* Series.abs() of line 19.
series_abs(x) == Abs(x)

\* pd.to_datetime(...).dt.date: drop the time of day of a timestamp.
to_date(ts) == ts[1]

\* Lines 16-19: normalise Date, add the derived absolute-value column.
clean(raw) ==
    [i \in DOMAIN raw |->
        [Ticker |-> raw[i].Ticker,
         Date   |-> to_date(raw[i].Date),
         TUI    |-> raw[i].TUI,
         TUIAbs |-> series_abs(raw[i].TUI)]]

\* df['Ticker'].unique()
unique(t) == {t[i].Ticker : i \in DOMAIN t}

SetMin(S) == CHOOSE x \in S : \A y \in S : x <= y

SetMax(S) == CHOOSE x \in S : \A y \in S : x >= y

\* df['Date'].min() and .max() of a non-empty Table.
date_min(t) == SetMin({t[i].Date : i \in DOMAIN t})

date_max(t) == SetMax({t[i].Date : i \in DOMAIN t})

Reverse(s) == [i \in 1..Len(s) |-> s[Len(s) + 1 - i]]

\* The orders of n positions, tabulated for every frame length.
PermTable ==
    [n \in 0..MaxRows |->
        {p \in [1..n -> 1..n] : \A i, j \in 1..n : i # j => p[i] # p[j]}]

Perms(n) == PermTable[n]

-----------------------------------------------------------------------------
(* The filter, lines 41-45 *)

\* Mask with the end of the range excluded.
mask_exclusive_end(r, tickers, range) ==
    /\ r.Ticker \in tickers
    /\ r.Date >= range[1]
    /\ r.Date < range[2]

\* The row mask: isin(selected_tickers) & Date >= range[0] & Date <= range[1].
mask(r, tickers, range) ==
    /\ r.Ticker \in tickers
    /\ r.Date >= range[1]
    /\ r.Date <= range[2]

\* Boolean indexing that loses the last kept row.
boolean_index_drop_last(t, tickers, range) ==
    LET kept == SelectSeq(t, LAMBDA r : mask(r, tickers, range))
    IN  IF kept = <<>> THEN kept ELSE SubSeq(kept, 1, Len(kept) - 1)

\* df[mask]: the rows whose mask is true, in the order of the Table.
boolean_index(t, tickers, range) ==
    SelectSeq(t, LAMBDA r : mask(r, tickers, range))

-----------------------------------------------------------------------------
(* Per-ticker aggregates, lines 97 and 125 *)

\* filtered_df[filtered_df['Ticker'] == ticker]
rows_of(t, ticker) == SelectSeq(t, LAMBDA r : r.Ticker = ticker)

\* groupby('Ticker').last().reset_index(): one row per ticker present, the
\* groups in sorted key order, each the last row of its group in Table order.
groupby_last(t) ==
    LET keys == SelectSeq(TickerOrder, LAMBDA k : k \in unique(t))
    IN  [g \in 1..Len(keys) |->
            LET rows == rows_of(t, keys[g]) IN rows[Len(rows)]]

\* A lookup that falls back to the unfiltered Table when the view has no row.
iloc_last_or_stale(t, ticker) ==
    LET rows == rows_of(t, ticker)
        all  == rows_of(df, ticker)
    IN  IF rows # <<>> THEN <<rows[Len(rows)]>>
        ELSE IF all # <<>> THEN <<all[Len(all)]>>
        ELSE <<>>

\* filtered_df[...].iloc[-1]: <<>> stands for the IndexError of an empty frame.
iloc_last(t, ticker) ==
    LET rows == rows_of(t, ticker)
    IN  IF rows = <<>> THEN <<>> ELSE <<rows[Len(rows)]>>

-----------------------------------------------------------------------------
(* sort_values("Date", ascending=False), line 166 *)

\* ndarray.argsort(kind='quicksort'): an index order that puts the keys in
\* non-decreasing order.  quicksort is not a stable kind, so the order among
\* equal keys is any order.
argsort(keys) ==
    {p \in Perms(Len(keys)) :
        \A i \in 1..(Len(keys) - 1) : keys[p[i]] <= keys[p[i + 1]]}

\* nargsort with ascending=True: the argsort itself.
nargsort_ascending(keys) == argsort(keys)

\* nargsort with ascending=False: reverse keys and positions, argsort,
\* reverse the resulting indexer.
nargsort(keys) ==
    LET n   == Len(keys)
        idx == Reverse([i \in 1..n |-> i])
    IN  {Reverse([i \in 1..n |-> idx[p[i]]]) : p \in argsort(Reverse(keys))}

\* The frames sort_values can return: the rows taken in an indexer's order.
sort_values(t) ==
    {[i \in 1..Len(t) |-> t[ix[i]]] :
        ix \in nargsort([i \in 1..Len(t) |-> t[i].Date])}

-----------------------------------------------------------------------------
(* The script, statement by statement *)

Init ==
    /\ file \in {<<>>} \cup {<<t>> : t \in Tables}
    /\ cache = <<>>
    /\ reads = 0
    /\ pc = "load"
    /\ exc = "none"
    /\ df = <<>>
    /\ selected_tickers = {}
    /\ date_range = <<>>
    /\ filtered_df = <<>>
    /\ latest_data = <<>>
    /\ selected_ticker = "None"
    /\ ticker_data = <<>>
    /\ rendered = {}
    /\ table_view = <<>>
    /\ summary = <<>>

\* The statement at pc raises: the execution stops there.
raise(stmt) ==
    /\ pc' = "error"
    /\ exc' = stmt

\* The statement at pc completes and control moves to the statement next.
goto(next) ==
    /\ pc' = next
    /\ exc' = exc

\* load_data without the memo: the sheet is read on every call.
load_data_uncached ==
    /\ pc = "load"
    /\ reads < MaxReads
    /\ reads' = reads + 1
    /\ IF file = <<>>
       THEN /\ raise("load")
            /\ UNCHANGED <<cache, df>>
       ELSE /\ cache' = <<clean(file[1])>>
            /\ df' = clean(file[1])
            /\ goto("multiselect")
    /\ UNCHANGED <<file, selected_tickers, date_range, filtered_df,
                   latest_data, selected_ticker, ticker_data, rendered,
                   table_view, summary>>

\* Line 23, df = load_data() under @st.cache_data (lines 9-21): a memoised
\* value is returned without running the body; otherwise the body reads the
\* sheet, and its value is memoised only if the body returns.
load_data ==
    /\ pc = "load"
    /\ IF cache # <<>>
       THEN /\ df' = cache[1]
            /\ goto("multiselect")
            /\ UNCHANGED <<cache, reads>>
       ELSE /\ reads < MaxReads
            /\ reads' = reads + 1
            /\ IF file = <<>>
               THEN /\ raise("load")
                    /\ UNCHANGED <<cache, df>>
               ELSE /\ cache' = <<clean(file[1])>>
                    /\ df' = clean(file[1])
                    /\ goto("multiselect")
    /\ UNCHANGED <<file, selected_tickers, date_range, filtered_df,
                   latest_data, selected_ticker, ticker_data, rendered,
                   table_view, summary>>

\* Lines 27-31: the user's choice among the tickers of the Table.  The widget
\* raises when a default value is not among its options.
multiselect ==
    /\ pc = "multiselect"
    /\ IF DefaultTickers \subseteq unique(df)
       THEN /\ selected_tickers' \in SUBSET unique(df)
            /\ goto("date_input")
       ELSE /\ raise("multiselect")
            /\ UNCHANGED selected_tickers
    /\ UNCHANGED <<persistent, df, date_range, filtered_df, latest_data,
                   selected_ticker, ticker_data, rendered, table_view, summary>>

\* Values of the range date picker: a tuple of 0, 1 or 2 dates between the
\* Table's first and last date.
date_tuples(t) ==
    UNION {[1..n -> date_min(t)..date_max(t)] : n \in 0..2}

\* Lines 33-38.
date_input ==
    /\ pc = "date_input"
    /\ date_range' \in date_tuples(df)
    /\ goto("filter")
    /\ UNCHANGED <<persistent, df, selected_tickers, filtered_df, latest_data,
                   selected_ticker, ticker_data, rendered, table_view, summary>>

\* Lines 41-45: date_range[0] and date_range[1] raise IndexError on a tuple
\* that is too short.
filter ==
    /\ pc = "filter"
    /\ IF Len(date_range) < 2
       THEN /\ raise("filter")
            /\ UNCHANGED filtered_df
       ELSE /\ filtered_df' = boolean_index(df, selected_tickers, date_range)
            /\ goto("tab1")
    /\ UNCHANGED <<persistent, df, selected_tickers, date_range, latest_data,
                   selected_ticker, ticker_data, rendered, table_view, summary>>

\* Lines 59-81: the line chart and the grouped bar chart.
tab1 ==
    /\ pc = "tab1"
    /\ rendered' = rendered \cup {"fig1", "fig2"}
    /\ goto("tab2")
    /\ UNCHANGED <<persistent, df, selected_tickers, date_range, filtered_df,
                   latest_data, selected_ticker, ticker_data, table_view,
                   summary>>

\* Lines 83-106: the scatter matrix, and the waterfall unless the view is empty.
tab2 ==
    /\ pc = "tab2"
    /\ IF filtered_df # <<>>
       THEN /\ latest_data' = groupby_last(filtered_df)
            /\ rendered' = rendered \cup {"fig3", "fig4"}
       ELSE /\ rendered' = rendered \cup {"fig3"}
            /\ UNCHANGED latest_data
    /\ goto("heatmap")
    /\ UNCHANGED <<persistent, df, selected_tickers, date_range, filtered_df,
                   selected_ticker, ticker_data, table_view, summary>>

\* Lines 108-121: the correlation heatmap.
heatmap ==
    /\ pc = "heatmap"
    /\ rendered' = rendered \cup {"fig5"}
    /\ goto("selectbox")
    /\ UNCHANGED <<persistent, df, selected_tickers, date_range, filtered_df,
                   latest_data, selected_ticker, ticker_data, table_view,
                   summary>>

\* Line 124: one of the selected tickers, None when there is none to choose.
selectbox ==
    /\ pc = "selectbox"
    /\ IF selected_tickers = {}
       THEN selected_ticker' = "None"
       ELSE selected_ticker' \in selected_tickers
    /\ goto("pie")
    /\ UNCHANGED <<persistent, df, selected_tickers, date_range, filtered_df,
                   latest_data, ticker_data, rendered, table_view, summary>>

\* Lines 125-131: the last row of the chosen company, then its pie chart.
pie ==
    /\ pc = "pie"
    /\ LET found == iloc_last(filtered_df, selected_ticker)
       IN  IF found = <<>>
           THEN /\ raise("pie")
                /\ UNCHANGED <<ticker_data, rendered>>
           ELSE /\ ticker_data' = found
                /\ rendered' = rendered \cup {"fig6"}
                /\ goto("tab4")
    /\ UNCHANGED <<persistent, df, selected_tickers, date_range, filtered_df,
                   latest_data, selected_ticker, table_view, summary>>

\* Lines 133-161: the 3D scatter and the animated bubble chart.
tab4 ==
    /\ pc = "tab4"
    /\ rendered' = rendered \cup {"fig7", "fig8"}
    /\ goto("dataframe")
    /\ UNCHANGED <<persistent, df, selected_tickers, date_range, filtered_df,
                   latest_data, selected_ticker, ticker_data, table_view,
                   summary>>

\* Lines 164-166: the table of the view sorted by Date, latest first.
dataframe ==
    /\ pc = "dataframe"
    /\ table_view' \in sort_values(filtered_df)
    /\ rendered' = rendered \cup {"table"}
    /\ goto("summary")
    /\ UNCHANGED <<persistent, df, selected_tickers, date_range, filtered_df,
                   latest_data, selected_ticker, ticker_data, summary>>

\* Lines 169-173: number of companies, date range of the Table, rows selected.
write_summary ==
    /\ pc = "summary"
    /\ summary' = <<Cardinality(unique(df)), date_min(df), date_max(df),
                    Len(filtered_df)>>
    /\ rendered' = rendered \cup {"summary"}
    /\ goto("done")
    /\ UNCHANGED <<persistent, df, selected_tickers, date_range, filtered_df,
                   latest_data, selected_ticker, ticker_data, table_view>>

\* A user interaction after an execution has ended: the runtime executes the
\* script again from its first line, with fresh script variables.
rerun ==
    /\ pc \in {"done", "error"}
    /\ pc' = "load"
    /\ exc' = "none"
    /\ df' = <<>>
    /\ selected_tickers' = {}
    /\ date_range' = <<>>
    /\ filtered_df' = <<>>
    /\ latest_data' = <<>>
    /\ selected_ticker' = "None"
    /\ ticker_data' = <<>>
    /\ rendered' = {}
    /\ table_view' = <<>>
    /\ summary' = <<>>
    /\ UNCHANGED persistent

Next ==
    \/ load_data
    \/ multiselect
    \/ date_input
    \/ filter
    \/ tab1
    \/ tab2
    \/ heatmap
    \/ selectbox
    \/ pie
    \/ tab4
    \/ dataframe
    \/ write_summary
    \/ rerun

Spec == Init /\ [][Next]_vars


-----------------------------------------------------------------------------
(* The spreadsheet changing under the running process *)

\* Workbooks the file is replaced by: two rows, one per default ticker.
FileVersions ==
    {<<>>} \cup
    {<< <<[Ticker |-> "OPTN",  Date |-> <<1, 0>>, TUI |-> a],
          [Ticker |-> "UONEK", Date |-> <<d, 0>>, TUI |-> b]>> >> :
        a \in Amounts, b \in Amounts, d \in Dates}

InitFile ==
    /\ Init
    /\ file \in FileVersions

\* The file is replaced, removed or restored at any moment.
change_file ==
    /\ file' \in FileVersions \ {file}
    /\ UNCHANGED <<cache, reads, pc, exc, df, selected_tickers, date_range,
                   filtered_df, latest_data, selected_ticker, ticker_data,
                   rendered, table_view, summary>>

NextFile ==
    \/ Next
    \/ change_file

SpecFile == InitFile /\ [][NextFile]_vars

-----------------------------------------------------------------------------
(* Vocabulary of the properties *)

StmtOrder == <<"load", "multiselect", "date_input", "filter", "tab1", "tab2",
               "heatmap", "selectbox", "pie", "tab4", "dataframe", "summary",
               "done">>

Pos(stmt) == CHOOSE i \in DOMAIN StmtOrder : StmtOrder[i] = stmt

\* The statement the execution is at, or stopped at.
at == IF pc = "error" THEN exc ELSE pc

\* stmt has run to completion in the current execution.
completed(stmt) == Pos(at) > Pos(stmt)

\* stmt has run in the current execution, to completion or to an exception.
attempted(stmt) == completed(stmt) \/ (pc = "error" /\ exc = stmt)

\* Latest date among the rows of a ticker in a frame that has some.
max_date_of(t, ticker) ==
    SetMax({t[i].Date : i \in {j \in DOMAIN t : t[j].Ticker = ticker}})

AbsHolds(t) == \A i \in DOMAIN t : t[i].TUIAbs = Abs(t[i].TUI)

\* Number of times row r occurs in frame t.
Count(t, r) == Cardinality({i \in DOMAIN t : t[i] = r})

NonIncreasing(t) == \A i \in 1..(Len(t) - 1) : t[i].Date >= t[i + 1].Date

-----------------------------------------------------------------------------
(* Properties *)

\* C1: once the filter statement has run, the filtered view is exactly the
\* rows of the Table whose Ticker is selected and whose Date is in
\* [start, end]: as many rows as there are such positions, the k-th row of
\* the view being the row at the k-th such position.  In the scenario of
\* tickers {OPTN, UONEK} on dates {1, 2} with one (OPTN, 1) row, selecting
\* {OPTN} and [1, 1] leaves that one row.
C1_FilterExact ==
    completed("filter") =>
        LET idx == {i \in DOMAIN df :
                        /\ df[i].Ticker \in selected_tickers
                        /\ date_range[1] <= df[i].Date
                        /\ df[i].Date <= date_range[2]}
            nth(k) == CHOOSE i \in idx : Cardinality({j \in idx : j <= i}) = k
        IN  /\ Len(filtered_df) = Cardinality(idx)
            /\ \A k \in 1..Len(filtered_df) : filtered_df[k] = df[nth(k)]
            /\ ( /\ {df[i].Date : i \in DOMAIN df} = {1, 2}
                 /\ selected_tickers = {"OPTN"}
                 /\ date_range = <<1, 1>>
                 /\ Cardinality({i \in DOMAIN df :
                        df[i].Ticker = "OPTN" /\ df[i].Date = 1}) = 1 )
               => /\ Len(filtered_df) = 1
                  /\ filtered_df[1].Ticker = "OPTN"
                  /\ filtered_df[1].Date = 1

C1_Witness ==
    /\ completed("filter")
    /\ Len(df) = 3
    /\ {df[i].Date : i \in DOMAIN df} = {1, 2}
    /\ selected_tickers = {"OPTN"}
    /\ date_range = <<1, 1>>
    /\ Len(filtered_df) = 1
    /\ filtered_df[1] = df[2]

\* C2: in an execution with an empty ticker selection and a two-date range,
\* the view is empty and no statement raises.
C2_EmptySelectionRenders ==
    (completed("date_input") /\ selected_tickers = {} /\ Len(date_range) = 2)
        => /\ pc # "error"
           /\ completed("filter") => filtered_df = <<>>

\* C3: the rows of the waterfall, and the row of the pie, carry the latest
\* Date of their ticker among the rows of the filtered view.
C3_LatestIsMaxDate ==
    /\ "fig4" \in rendered =>
          \A g \in DOMAIN latest_data :
              latest_data[g].Date =
                  max_date_of(filtered_df, latest_data[g].Ticker)
    /\ "fig6" \in rendered =>
          ticker_data[1].Date = max_date_of(filtered_df, selected_ticker)

\* C4 as stated: the sheet is read at most once, and a call of load_data
\* that returns, returns the memoised Table.
C4_ReadAtMostOnce ==
    /\ reads <= 1
    /\ completed("load") => df = cache[1]

\* C4 amended: once a call of load_data has returned, the memo never changes,
\* the sheet is never read again, and every call returns the memoised Table,
\* whatever happens to the file.
C4_CachedAfterFirstReturn ==
    [][ /\ cache # <<>> => (cache' = cache /\ reads' = reads)
        /\ (pc = "load" /\ pc' = "multiselect") => df' = cache'[1] ]_vars

C4_Witness ==
    /\ pc = "multiselect"
    /\ reads = 2
    /\ file # <<>>
    /\ clean(file[1]) # cache[1]
    /\ df = cache[1]

\* C5: when the chosen company has no row in the filtered view, the lookup
\* of its last row raises and no pie is drawn; a pie that is drawn shows a
\* row of the current filtered view that belongs to the chosen company.
C5_PieLookupNotFound ==
    /\ (attempted("pie") /\ rows_of(filtered_df, selected_ticker) = <<>>)
          => /\ pc = "error"
             /\ exc = "pie"
             /\ "fig6" \notin rendered
             /\ ticker_data = <<>>
    /\ "fig6" \in rendered
          => \E i \in DOMAIN filtered_df :
                /\ filtered_df[i] = ticker_data[1]
                /\ filtered_df[i].Ticker = selected_ticker

C5_Witness ==
    /\ pc = "error"
    /\ exc = "pie"
    /\ selected_ticker \in selected_tickers
    /\ rows_of(df, selected_ticker) # <<>>
    /\ "fig6" \notin rendered

\* C6: with a date range of fewer than two dates, or one whose start is after
\* its end, the filter statement completes and the view is empty.
C6_BadRangeGivesEmptyView ==
    (attempted("filter") /\ (Len(date_range) < 2 \/ date_range[1] > date_range[2]))
        => /\ completed("filter")
           /\ filtered_df = <<>>

\* C7: an execution in which the last-row lookup of the pie raised has still
\* put the two advanced charts, the table and the summary on the page.
C7_PieFailureIsolated ==
    (pc = "error" /\ exc = "pie")
        => {"fig7", "fig8", "table", "summary"} \subseteq rendered

\* C8 as stated: the table shows the rows of the view, each as often as in
\* the view, latest Date first, rows of equal Date in the order of the view.
C8_StableDescendingSort ==
    "table" \in rendered =>
        \E p \in Perms(Len(filtered_df)) :
            /\ table_view = [i \in 1..Len(filtered_df) |-> filtered_df[p[i]]]
            /\ NonIncreasing(table_view)
            /\ \A i, j \in 1..Len(filtered_df) :
                  (i < j /\ table_view[i].Date = table_view[j].Date)
                      => p[i] < p[j]

\* C8 amended: the table shows the rows of the view, each as often as in the
\* view, latest Date first; the order of rows of equal Date is not fixed.
C8_DescendingPermutation ==
    "table" \in rendered =>
        /\ Len(table_view) = Len(filtered_df)
        /\ \A i \in DOMAIN filtered_df :
              Count(table_view, filtered_df[i]) = Count(filtered_df, filtered_df[i])
        /\ NonIncreasing(table_view)

C8_Witness ==
    /\ "table" \in rendered
    /\ Len(table_view) = 3
    /\ table_view[1].Date > table_view[3].Date
    /\ table_view # filtered_df

\* C9: every row of the loaded Table has TUIAbs = |TUI|, in the memo and in
\* the script, and no statement after the load changes the Table.
C9_AbsAndImmutable ==
    [][ /\ AbsHolds(df) /\ AbsHolds(df')
        /\ cache # <<>> => (AbsHolds(cache[1]) /\ cache' = cache)
        /\ cache' # <<>> => AbsHolds(cache'[1])
        /\ pc \notin {"load", "done", "error"} => df' = df ]_vars

C9_Witness ==
    /\ pc = "done"
    /\ \E i \in DOMAIN df : df[i].TUI < 0 /\ df[i].TUIAbs = 1
    /\ \E i \in DOMAIN df : df[i].TUI > 0
    /\ Len(filtered_df) < Len(df)
    /\ table_view # filtered_df

\* C10: filtering the filtered view again with the same selection gives the
\* same view.
C10_FilterIdempotent ==
    completed("filter") =>
        boolean_index(filtered_df, selected_tickers, date_range) = filtered_df

C10_Witness ==
    /\ completed("filter")
    /\ Len(filtered_df) = 2
    /\ Len(df) = 3
    /\ boolean_index(filtered_df, selected_tickers, date_range) = filtered_df

=============================================================================
